---- MODULE Spec2Model ----
(***************************************************************************)
(* A model of the rocket-skates ACME protocol engine: the server's nonce   *)
(* source (lib/server/nonce-source) and the ACME server core with its      *)
(* in-memory resource store (lib/server/acme-server.js).                   *)
(***************************************************************************)
EXTENDS Integers, Sequences, FiniteSets, TLC

(***************************************************************************)
(* Bounds of the model.                                                    *)
(***************************************************************************)
\* number of get() calls explored on one nonce source
MaxGets == 6
\* the bufferSize argument the nonce source is constructed with
BufferSize == 2
\* the start argument the nonce source is constructed with
Start == 7
\* number of account keys that sign requests
NumKeys == 2
\* number of Registration objects the server constructs
MaxRegs == 2
\* number of Application objects the server constructs
MaxApps == 2
\* number of certificates issued or being issued
MaxCerts == 3
\* number of challenge probes in flight at one time
MaxProbes == 1
\* last instant of the server's clock
MaxTime == 1
\* options.authzExpirySeconds, in clock ticks
AuthzExpiry == 0
\* number of entries of options.challengeTypes
NumChallengeTypes == 1
\* instants of the clock per second, under the transport
TicksPerSecond == 3
\* options.rateLimit of the TransportServer
RateLimitSize == 2
\* last instant of the clock under the transport
MaxClock == 4
\* number of POSTs whose promise chain is in flight at one time
MaxPosts == 2
\* number of requests the transport receives over HTTPS
MaxRequests == 4
\* number of post() calls of the client in flight at one time
MaxCalls == 2
\* number of requests the client sends
MaxExchanges == 6
\* last instant of the clock under the client
MaxClientClock == 7
\* the largest limit a caller gives poll()
MaxPollLimit == 3
\* the GETs of one poll() call the model follows
MaxPollGets == 6
\* the CA.issue() calls that can wait for keys() at once
MaxKeyCalls == 3
\* the key pairs generateKeyPair makes
MaxGenerations == 4

VARIABLES
  \* ---- nonce source (Source) ----
  min,        \* Source.min
  counter,    \* Source.counter
  used,       \* Source.used, an array of bufferSize numbers
  accepted,   \* history: the values for which use() has returned true
  lastUse,    \* history: the last use() call, its argument and its result
  \* ---- ACME server (ACMEServer, DB, CA) ----
  regs,       \* db.store['reg'], by id
  regCount,   \* number of Registration objects constructed so far
  apps,       \* db.store['app'], by id
  authzs,     \* db.store['authz'], by id
  certs,      \* db.store['cert'], by id
  caKeys,     \* CA._keys is set
  issuing,    \* per Application, the CA.issue() promises not yet settled
  probes,     \* challenge update() promises whose probe is in flight
  now,        \* the clock read by new Date()
  retired,    \* history: <<registration, key>> replaced by a key-change
  \* ---- transport layer (TransportServer, RateLimit) ----
  queue,      \* RateLimit.queue, the instants of the admitted POSTs
  nextOpen,   \* RateLimit.nextOpen
  posts,      \* POSTs whose promise chain has not yet answered
  handling,   \* POSTs a handler has taken and not answered
  sent,       \* the response sent last
  \* ---- clients (TransportClient, ACMEClient) ----
  nonces,     \* TransportClient.nonces, the queue of unused nonces
  calls,      \* the post() calls of the client, by slot
  signed,     \* history: the nonces of the POSTs the client has signed
  polling,    \* the TransportClient.poll() call of the ACME client
  acme,       \* the ACMEClient: its keys and its changeKey() call
  \* ---- challenges (HTTP01Challenge, DNS01Challenge, TLSSNI02Challenge) ----
  challengeObj, \* authz.challengeObj, the Challenge objects by type
  \* ---- CA and validation modules (pki.CA, HTTP01Validation, ...) ----
  ca,         \* the CA: this._keys and the keys() calls
  listeners   \* the listener and the promise of each validation module

nonceVars == <<min, counter, used, accepted, lastUse>>
serverVars == <<regs, regCount, apps, authzs, certs, caKeys, issuing, probes,
                now, retired>>
transportVars == <<queue, nextOpen, posts, handling, sent>>
postVars == <<nonces, calls, signed>>
clientVars == <<postVars, polling, acme>>
moduleVars == <<ca, listeners>>
probeVars == <<challengeObj, moduleVars>>
vars == <<nonceVars, serverVars, transportVars, clientVars, probeVars>>

(***************************************************************************)
(* Decimal strings.  A nonce on the wire is a string; Source.get() formats *)
(* the counter with Number.toString() and Source.use() tests the string    *)
(* against /^[0-9]+$/ and reads it back with parseInt().  A string is a    *)
(* sequence of characters, a digit character is its value 0..9 and any     *)
(* other character is a code above 9 (10 for ".", 11 for a letter).        *)
(***************************************************************************)
Digits == 0..9

RECURSIVE toString(_)
toString(n) ==
  IF n < 10 THEN <<n>> ELSE Append(toString(n \div 10), n % 10)

\* nonce.match(/^[0-9]+$/)
isDigits(s) == Len(s) > 0 /\ \A i \in 1..Len(s) : s[i] \in Digits

RECURSIVE parseInt(_)
parseInt(s) ==
  IF Len(s) = 0 THEN 0
  ELSE 10 * parseInt(SubSeq(s, 1, Len(s) - 1)) + s[Len(s)]

\* Array.prototype.indexOf(value) > -1
indexOfFound(arr, value) == \E i \in 1..Len(arr) : arr[i] = value

(***************************************************************************)
(* The nonce source.                                                       *)
(***************************************************************************)
NoUse == [nonce |-> <<>>, ok |-> FALSE, again |-> FALSE]

\* constructor(start, bufferSize)
SourceInit ==
  /\ min = Start
  /\ counter = Start
  /\ used = [i \in 1..BufferSize |-> Start]
  /\ accepted = {}
  /\ lastUse = NoUse

\* get(): this.counter += 1; return this.counter.toString()
SourceGet ==
  /\ counter < Start + MaxGets
  /\ counter' = counter + 1
  /\ lastUse' = NoUse
  /\ UNCHANGED <<min, used, accepted, serverVars, transportVars, clientVars, probeVars>>

\* the acceptance test of use(), on an all-digits nonce
useRejects(value) ==
  (value <= min) \/ (value > counter) \/ indexOfFound(used, value)

\* use(nonce): the source after the call; lastUse.ok is what it returns
use(nonce) ==
  IF ~isDigits(nonce) \/ useRejects(parseInt(nonce))
  THEN /\ lastUse' = [nonce |-> nonce, ok |-> FALSE, again |-> FALSE]
       /\ UNCHANGED <<min, counter, used, accepted>>
  ELSE LET value == parseInt(nonce) IN
       /\ min' = Head(used)
       /\ used' = Append(Tail(used), value)
       /\ accepted' = accepted \cup {value}
       /\ lastUse' = [nonce |-> nonce, ok |-> TRUE, again |-> value \in accepted]
       /\ UNCHANGED counter

\* a call of use(nonce) on the source alone
SourceUse(nonce) == use(nonce) /\ UNCHANGED <<serverVars, transportVars, clientVars, probeVars>>

\* the strings handed to use(): every nonce get() can have returned, the
\* neighbouring numbers, and strings that are not all digits
Nonces ==
  {toString(v) : v \in (Start - 1)..(Start + MaxGets + 1)}
    \cup {<<11>>, <<2, 10, 3>>, <<>>}

(***************************************************************************)
(* The ACME server.  A request below is one that the transport layer has   *)
(* verified: req.accountKey is the key k that signed it and                *)
(* req.accountKeyThumbprint is thumbprint(k).  A handler is an operator    *)
(* from the request to its outcome: the status code of the response and    *)
(* the stores as the handler leaves them.  An action applies it.           *)
(***************************************************************************)
Keys == 1..NumKeys

\* jose.base64url.encode(key.thumbprint()): one digest per key, and no
\* digest is a uuid
thumbprint(k) == 100 + k

\* null, undefined and the absent field of a payload
Null == 0

\* the key pair of the CSRs, which is no account key
CertKey == NumKeys + 1

\* DNS names of the CSRs, and the CSRs clients submit: the names checkCSR()
\* returns and the subject public key
Names == {"a", "b"}
CSRs == {[form |-> "ok", names |-> <<"a">>, key |-> CertKey],
         [form |-> "ok", names |-> <<"a", "b">>, key |-> CertKey]}
\* a payload without csr, and a csr that parseCSR() or checkCSR() rejects
NoCSR == [form |-> "missing", names |-> <<>>, key |-> Null]
BadCSR == [form |-> "malformed", names |-> <<>>, key |-> Null]

\* this.terms, the configured terms-of-service URL
Terms == "terms"

\* the smallest element of a non-empty set of ids: objects are enumerated
\* in insertion order, which is the order of their ids here
First(S) == CHOOSE x \in S : \A y \in S : x <= y

\* DB.put(obj) on the store of one type
put(store, id, obj) ==
  [i \in DOMAIN store \cup {id} |-> IF i = id THEN obj ELSE store[i]]

\* DB.delete(obj)
delete(store, id) == [i \in DOMAIN store \ {id} |-> store[i]]

\* DB.regByThumbprint(thumbprint)
regByThumbprintMutant(tp) == Null

regByThumbprint(tp) ==
  LET found == {id \in DOMAIN regs : regs[id].thumbprint = tp}
  IN  IF found = {} THEN Null ELSE First(found)

\* DB.authzFor(regID, name)
authzFor(store, regID, name) ==
  LET found == {id \in DOMAIN store :
                  store[id].regID = regID /\ store[id].name = name}
  IN  IF found = {} THEN Null ELSE First(found)

\* DB.authorizedFor(regID, names)
authorizedFor(regID, names) ==
  LET authzNames ==
        {authzs[a].name : a \in {x \in DOMAIN authzs : authzs[x].regID = regID}}
  IN  {i \in 1..Len(names) : names[i] \notin authzNames} = {}

\* Authorization.update(): the status after recomputing it from the
\* challenges and the expiry date
updateStatusMutant(authz, t) ==
  LET validChallenges ==
        {i \in 1..Len(authz.challenges) : authz.challenges[i] = "valid"}
      allInvalid ==
        \A i \in 1..Len(authz.challenges) : authz.challenges[i] = "invalid"
  IN  IF authz.expires < t THEN "pending"
      ELSE IF allInvalid THEN "invalid"
      ELSE IF validChallenges # {} THEN "valid"
      ELSE authz.status

updateStatus(authz, t) ==
  LET validChallenges ==
        {i \in 1..Len(authz.challenges) : authz.challenges[i] = "valid"}
      allInvalid ==
        \A i \in 1..Len(authz.challenges) : authz.challenges[i] = "invalid"
  IN  IF (authz.expires < t) \/ allInvalid THEN "invalid"
      ELSE IF validChallenges # {} THEN "valid"
      ELSE authz.status

update(authz, t) == [authz EXCEPT !.status = updateStatus(authz, t)]

\* new Authorization(server, regID, thumbprint, name)
Authorization(regID, name, t) ==
  update([regID |-> regID, name |-> name, status |-> "pending",
          expires |-> t + AuthzExpiry,
          challenges |-> [i \in 1..NumChallengeTypes |-> "pending"]], t)

\* Authorization.asRequirement()
asRequirement(store, id) ==
  [type |-> "authorization", status |-> store[id].status, url |-> id]

\* new Registration(server, jwk, thumbprint, contact)
Registration(k, tp, contact) ==
  [key |-> k, thumbprint |-> tp, contact |-> contact, agreement |-> "",
   status |-> "good"]

\* new Certificate(server, regID, der); der is what CA.issue(app) signs:
\* the names and the public key of the application's CSR
Certificate(app) ==
  [regID |-> app.regID, names |-> app.csr.names, key |-> app.csr.key,
   revoked |-> FALSE, revocationReason |-> Null]

\* Application.issueIfReady(): the condition under which it issues
readyMutant(app) ==
  \E i \in 1..Len(app.requirements) : app.requirements[i].status = "valid"

ready(app) ==
  LET unfulfilled == {i \in 1..Len(app.requirements) :
                        app.requirements[i].status # "valid"}
  IN  unfulfilled = {}

\* Application.issueIfReady() for every application of the set deps, in
\* order.  With the CA's keys at hand CA.issue() settles before any other
\* request is served and the certificate is stored at once; without them
\* the application is left valid while CA.generate() runs.
\* st is [apps, certs, issuing].
RECURSIVE issueIfReady(_, _)
issueIfReady(st, deps) ==
  IF deps = {} THEN st
  ELSE LET a == First(deps)
           app == st.apps[a]
           certId == Cardinality(DOMAIN st.certs) + 1
           next ==
             IF ~ready(app) THEN st
             ELSE IF caKeys
               THEN [st EXCEPT
                       !.apps = put(st.apps, a,
                                    [app EXCEPT !.status = "valid",
                                                !.certificate = certId]),
                       !.certs = put(st.certs, certId, Certificate(app))]
               ELSE [st EXCEPT
                       !.apps = put(st.apps, a, [app EXCEPT !.status = "valid"]),
                       !.issuing = [st.issuing EXCEPT ![a] = @ + 1]]
       IN  issueIfReady(next, deps \ {a})

\* the number of certificates issued and being issued
RECURSIVE sum(_, _)
sum(f, S) == IF S = {} THEN 0 ELSE LET x == First(S) IN f[x] + sum(f, S \ {x})
certLoad(st) == Cardinality(DOMAIN st.certs) + sum(st.issuing, DOMAIN st.issuing)

\* DB.updateAppsFor(authz): the requirements rewritten, then issueIfReady()
\* on every application of the authorization's registration
updateAppsForMutant(id, authz) ==
  LET deps == DOMAIN apps
      rewritten ==
        [a \in DOMAIN apps |->
           [apps[a] EXCEPT !.requirements =
              [i \in 1..Len(apps[a].requirements) |->
                 LET req == apps[a].requirements[i]
                 IN  IF req.type = "authorization" /\ req.url = id
                     THEN [req EXCEPT !.status = authz.status]
                     ELSE req]]]
  IN  issueIfReady([apps |-> rewritten, certs |-> certs, issuing |-> issuing], deps)

updateAppsFor(id, authz) ==
  LET deps == {a \in DOMAIN apps : apps[a].regID = authz.regID}
      rewritten ==
        [a \in DOMAIN apps |->
           IF a \notin deps THEN apps[a]
           ELSE [apps[a] EXCEPT !.requirements =
                   [i \in 1..Len(apps[a].requirements) |->
                      LET req == apps[a].requirements[i]
                      IN  IF req.type = "authorization" /\ req.url = id
                          THEN [req EXCEPT !.status = authz.status]
                          ELSE req]]]
  IN  issueIfReady([apps |-> rewritten, certs |-> certs, issuing |-> issuing], deps)

ServerInit ==
  /\ regs = <<>>
  /\ regCount = 0
  /\ apps = <<>>
  /\ authzs = <<>>
  /\ certs = <<>>
  /\ caKeys = FALSE
  /\ issuing = [a \in 1..MaxApps |-> 0]
  /\ probes = {}
  /\ now = 0
  /\ retired = {}

\* the clock advances
Tick ==
  /\ now < MaxTime
  /\ now' = now + 1
  /\ UNCHANGED <<nonceVars, transportVars, clientVars, probeVars, regs, regCount, apps, authzs,
                 certs, caKeys, issuing, probes, retired>>

\* newReg(req, res): POST /new-reg.  location is the id in the Location
\* header.
newRegMutant(k, contact) ==
  IF regByThumbprint(thumbprint(k)) # Null
  THEN [status |-> 409, location |-> regCount, regs |-> regs]
  ELSE [status |-> 201, location |-> regCount + 1,
        regs |-> put(regs, regCount + 1, Registration(k, thumbprint(k), contact))]

newReg(k, contact) ==
  LET tp == thumbprint(k)
      existing == regByThumbprint(tp)
  IN  IF existing # Null
      THEN [status |-> 409, location |-> existing, regs |-> regs]
      ELSE [status |-> 201, location |-> regCount + 1,
            regs |-> put(regs, regCount + 1, Registration(k, tp, contact))]

NewReg(k, contact) ==
  LET r == newReg(k, contact) IN
  /\ r.status = 201 => regCount < MaxRegs
  /\ regs' = r.regs
  /\ regCount' = IF r.status = 201 THEN regCount + 1 ELSE regCount
  /\ UNCHANGED <<nonceVars, transportVars, clientVars, probeVars, apps, authzs, certs,
                 caKeys, issuing, probes, now, retired>>

\* updateReg(req, res): POST /reg/:id
updateRegMutant(k, id, payload) ==
  IF id \notin DOMAIN regs THEN [status |-> 404, regs |-> regs]
  ELSE IF payload.status = "deactivated"
  THEN [status |-> 200, regs |-> delete(regs, id)]
  ELSE [status |-> 200, regs |-> regs]

updateReg(k, id, payload) ==
  IF id \notin DOMAIN regs THEN [status |-> 404, regs |-> regs]
  ELSE IF thumbprint(k) # regs[id].thumbprint THEN [status |-> 401, regs |-> regs]
  ELSE IF payload.status = "deactivated"
  THEN [status |-> 200, regs |-> delete(regs, id)]
  ELSE LET withContact ==
             IF payload.contact # ""
             THEN [regs[id] EXCEPT !.contact = payload.contact]
             ELSE regs[id]
       IN  IF payload.agreement # "" /\ payload.agreement # Terms
           THEN \* reg.contact is already assigned, on the stored object
                [status |-> 400, regs |-> put(regs, id, withContact)]
           ELSE [status |-> 200,
                 regs |-> put(regs, id,
                              IF payload.agreement # ""
                              THEN [withContact EXCEPT !.agreement = payload.agreement]
                              ELSE withContact)]

UpdateReg(k, id, payload) ==
  /\ regs' = updateReg(k, id, payload).regs
  /\ UNCHANGED <<nonceVars, transportVars, clientVars, probeVars, regCount, apps, authzs, certs,
                 caKeys, issuing, probes, now, retired>>

RegPayloads ==
  [status : {"", "deactivated"}, contact : {"", "c2"}, agreement : {"", Terms, "wrong"}]
Deactivation == [status |-> "deactivated", contact |-> "", agreement |-> ""]

\* pki.CA.maxValiditySeconds, in clock ticks
MaxValidity == 5

\* the payloads of new-app: a CSR and the dates, each Null when absent, -1
\* when new Date() cannot parse it, else an instant
AppPayloads ==
  [csr : CSRs, notBefore : {Null}, notAfter : {Null}]
    \cup [csr : {NoCSR, BadCSR}, notBefore : {Null}, notAfter : {Null}]
    \cup [csr : {CHOOSE c \in CSRs : TRUE}, notBefore : {-1, 1}, notAfter : {-1, 9}]

\* the try block of newApp(): true when it throws
newAppThrows(payload) ==
  \/ payload.csr.form = "missing"
  \/ payload.csr.form = "malformed"
  \/ payload.notBefore = -1
  \/ (payload.notAfter # Null /\ payload.notBefore = Null)
  \/ payload.notAfter = -1
  \/ (payload.notBefore # Null /\ payload.notAfter # Null
        /\ payload.notAfter - payload.notBefore > MaxValidity)

\* the loop of newApp() over the names of the CSR: st is [authzs, reqs]
RECURSIVE assemble(_, _, _, _)
assemble(st, regID, names, i) ==
  IF i > Len(names) THEN st
  ELSE LET existing == authzFor(st.authzs, regID, names[i])
           id == IF existing # Null THEN existing
                 ELSE Cardinality(DOMAIN st.authzs) + 1
           store == IF existing # Null THEN st.authzs
                    ELSE put(st.authzs, id, Authorization(regID, names[i], now))
       IN  assemble([authzs |-> store,
                     reqs |-> Append(st.reqs, asRequirement(store, id))],
                    regID, names, i + 1)

\* what a handler leaves of the stores it can write
Stores == [authzs |-> authzs, apps |-> apps, certs |-> certs, issuing |-> issuing]
Outcome(status, id, st) ==
  [status |-> status, id |-> id, authzs |-> st.authzs, apps |-> st.apps,
   certs |-> st.certs, issuing |-> st.issuing]

\* newApp(req, res): POST /new-app.  id is the application in Location.
newApp(k, payload) ==
  LET reg == regByThumbprint(thumbprint(k)) IN
  IF reg = Null THEN Outcome(401, Null, Stores)
  ELSE IF newAppThrows(payload) THEN Outcome(400, Null, Stores)
  ELSE LET id == Cardinality(DOMAIN apps) + 1
           asm == assemble([authzs |-> authzs, reqs |-> <<>>], reg,
                           payload.csr.names, 1)
           app == [regID |-> reg, status |-> "pending", csr |-> payload.csr,
                   notBefore |-> payload.notBefore, notAfter |-> payload.notAfter,
                   requirements |-> asm.reqs, certificate |-> Null]
           st == issueIfReady([apps |-> put(apps, id, app), certs |-> certs,
                               issuing |-> issuing], {id})
       IN  Outcome(201, id, [authzs |-> asm.authzs, apps |-> st.apps,
                             certs |-> st.certs, issuing |-> st.issuing])

NewApp(k, payload) ==
  LET r == newApp(k, payload) IN
  /\ Cardinality(DOMAIN r.apps) <= MaxApps
  /\ certLoad(r) <= MaxCerts
  /\ authzs' = r.authzs
  /\ apps' = r.apps
  /\ certs' = r.certs
  /\ issuing' = r.issuing
  /\ UNCHANGED <<nonceVars, transportVars, clientVars, probeVars, regs, regCount, caKeys, probes, now, retired>>

\* the end of the promise chain of updateAuthz(): the challenge has settled
\* with the given status; authz.update(), db.updateAppsFor(authz) and the
\* response follow
challengeSettled(id, index, status) ==
  LET authz == update([authzs[id] EXCEPT !.challenges[index] = status], now)
      st == updateAppsFor(id, authz)
  IN  Outcome(200, id, [authzs |-> put(authzs, id, authz), apps |-> st.apps,
                        certs |-> st.certs, issuing |-> st.issuing])

\* the status a deactivation request leaves in the authorization
deactivate(status, payload) ==
  IF payload.status = "deactivated" THEN "deactivated" ELSE status

\* the test of updateAuthz() that the account key is not the owner's
notOwnerMutant(reg, authz) == reg = Null

notOwner(reg, authz) == reg = Null \/ reg # authz.regID

\* updateAuthz(req, res): POST /authz/:id and POST /authz/:id/:index (index
\* is Null for the first).  Status 0 stands for a response that is not sent
\* by this step: the challenge has sent its probe.
updateAuthz(k, id, index, payload) ==
  LET reg == regByThumbprint(thumbprint(k)) IN
  IF id \notin DOMAIN authzs THEN Outcome(404, id, Stores)
  ELSE IF notOwner(reg, authzs[id]) THEN Outcome(401, id, Stores)
  ELSE IF index = Null
  THEN \* authz.marshal() calls authz.update() on the stored object
       Outcome(200, id,
               [Stores EXCEPT !.authzs =
                  put(authzs, id,
                      update([authzs[id] EXCEPT !.status = deactivate(@, payload)],
                             now))])
  ELSE IF authzs[id].status # "pending"
  THEN Outcome(403, id,
               [Stores EXCEPT !.authzs = put(authzs, id, update(authzs[id], now))])
  ELSE IF index \notin 1..Len(authzs[id].challenges) THEN Outcome(404, id, Stores)
  ELSE IF payload.response # "good"
  THEN \* the challenge's update() sets it invalid and resolves at once
       challengeSettled(id, index, "invalid")
  ELSE Outcome(0, id, Stores)

UpdateAuthz(k, id, index, payload) ==
  LET r == updateAuthz(k, id, index, payload) IN
  /\ certLoad(r) <= MaxCerts
  /\ authzs' = r.authzs
  /\ apps' = r.apps
  /\ certs' = r.certs
  /\ issuing' = r.issuing
  /\ IF r.status = 0
     THEN /\ Cardinality(probes) < MaxProbes
          /\ probes' = probes \cup
               {[authz |-> id, index |-> index,
                 n |-> 1 + Cardinality({p \in probes :
                                          p.authz = id /\ p.index = index})]}
     ELSE UNCHANGED probes
  /\ UNCHANGED <<nonceVars, transportVars, clientVars, probeVars, regs, regCount, caKeys, now, retired>>

\* the POSTs to an authorization (index Null) and to one of its challenges
AuthzRequests ==
  [index : {Null}, status : {"deactivated", "pending"}, response : {""}]
    \cup [index : 1..(NumChallengeTypes + 1), status : {""}, response : {"good", "bad"}]
\* the ids requests name: those of the stored authorizations and one more
AuthzIds == 1..(Cardinality(DOMAIN authzs) + 1)

\* the probe of a challenge answers or times out
ChallengeResolve(p, status) ==
  LET r == challengeSettled(p.authz, p.index, status) IN
  /\ p \in probes
  /\ certLoad(r) <= MaxCerts
  /\ probes' = probes \ {p}
  /\ authzs' = r.authzs
  /\ apps' = r.apps
  /\ certs' = r.certs
  /\ issuing' = r.issuing
  /\ UNCHANGED <<nonceVars, transportVars, clientVars, probeVars, regs, regCount, caKeys, now, retired>>

\* CA.generate() calls back with the keys: this._keys is set and the
\* CA.issue() call that waited signs; issueIfReady() stores the certificate
GenerateDone(a) ==
  LET certId == Cardinality(DOMAIN certs) + 1 IN
  /\ issuing[a] > 0
  /\ issuing' = [issuing EXCEPT ![a] = @ - 1]
  /\ caKeys' = TRUE
  /\ certs' = put(certs, certId, Certificate(apps[a]))
  /\ apps' = put(apps, a, [apps[a] EXCEPT !.certificate = certId])
  /\ UNCHANGED <<nonceVars, transportVars, clientVars, probeVars, regs, regCount, authzs, probes, now, retired>>

\* fetch(req, res): GET /authz/:id; resource.marshal() calls update()
FetchAuthz(id) ==
  /\ id \in DOMAIN authzs
  /\ authzs' = put(authzs, id, update(authzs[id], now))
  /\ UNCHANGED <<nonceVars, transportVars, clientVars, probeVars, regs, regCount, apps, certs,
                 caKeys, issuing, probes, now, retired>>

\* fetchChallenge(req, res): GET /authz/:id/:index
FetchChallenge(id, index) ==
  /\ id \in DOMAIN authzs
  /\ index \in 1..Len(authzs[id].challenges)
  /\ authzs' = put(authzs, id, update(authzs[id], now))
  /\ UNCHANGED <<nonceVars, transportVars, clientVars, probeVars, regs, regCount, apps, certs,
                 caKeys, issuing, probes, now, retired>>

\* parseInt(string): an optional "-" (character 12), then the longest run
\* of digits; NaN when there is none.  The result is <<isNaN, value>>.
RECURSIVE digitPrefix(_)
digitPrefix(str) ==
  IF Len(str) = 0 \/ Head(str) \notin Digits THEN <<>>
  ELSE <<Head(str)>> \o digitPrefix(Tail(str))

parseIntJS(str) ==
  LET negative == Len(str) > 0 /\ Head(str) = 12
      digits == digitPrefix(IF negative THEN Tail(str) ELSE str)
  IN  IF Len(digits) = 0 THEN <<TRUE, 0>>
      ELSE <<FALSE, IF negative THEN 0 - parseInt(digits) ELSE parseInt(digits)>>

\* changeKey(req, res), the handler written for POST /key-change.  inner is
\* the JWS in the payload: the key that signed it, whether jose.verify()
\* accepts it, its url header and its payload.  sent is false when the
\* response is never ended.
changeKey(k, inner) ==
  IF ~inner.verified
  THEN \* jose.verify() rejects and nothing handles the rejection
       [status |-> 0, sent |-> FALSE, regs |-> regs]
  ELSE LET innerThumbprint == thumbprint(inner.key)
           reg == regByThumbprint(innerThumbprint)
       IN  IF reg = Null THEN [status |-> 403, sent |-> TRUE, regs |-> regs]
           ELSE LET urlMatch == inner.url = "key-change"
                    oldKeyMatch == inner.oldKey = innerThumbprint
                    newKeyMatch == inner.newKey = thumbprint(k)
                    regMatch == inner.account = reg
                IN  IF ~urlMatch \/ ~oldKeyMatch \/ ~newKeyMatch \/ ~regMatch
                    THEN [status |-> 403, sent |-> TRUE, regs |-> regs]
                    ELSE \* reg.key = outer.accountKey; res.status(200); res.end;
                         [status |-> 200, sent |-> FALSE,
                          regs |-> put(regs, reg, [regs[reg] EXCEPT !.key = k])]

ChangeKey(k, inner) ==
  LET r == changeKey(k, inner)
      reg == regByThumbprint(thumbprint(inner.key))
  IN  /\ regs' = r.regs
      /\ retired' = IF r.status = 200 /\ regs[reg].key # k
                    THEN (retired \ {<<reg, k>>}) \cup {<<reg, regs[reg].key>>}
                    ELSE retired
      /\ UNCHANGED <<nonceVars, transportVars, clientVars, probeVars, regCount, apps, authzs,
                     certs, caKeys, issuing, probes, now>>

InnerJWS ==
  [key : Keys, verified : BOOLEAN, url : {"key-change", "bogus"},
   oldKey : {thumbprint(k) : k \in Keys}, newKey : {thumbprint(k) : k \in Keys},
   account : 1..MaxRegs]

\* POST /key-change as the constructor routes it: to this.keyChange, which
\* ACMEServer does not define; the call throws and the router answers 500
keyChange(k, inner) == [status |-> 500, sent |-> TRUE, regs |-> regs]

KeyChange(k, inner) ==
  /\ regs' = keyChange(k, inner).regs
  /\ UNCHANGED <<nonceVars, transportVars, clientVars, probeVars, regCount, apps, authzs, certs,
                 caKeys, issuing, probes, now, retired>>

\* revokeCert(req, res): POST /revoke-cert.  cert is the stored certificate
\* that payload.certificate decodes to, Null for an unknown one.
revokeCert(k, cert, reason) ==
  IF cert \notin DOMAIN certs THEN [status |-> 403, certs |-> certs]
  ELSE LET reg == regByThumbprint(thumbprint(k))
           owner == reg # Null /\ reg = certs[cert].regID
           authorized == authorizedFor(thumbprint(k), certs[cert].names)
           ok == IF ~owner /\ ~authorized
                 THEN thumbprint(k) = thumbprint(certs[cert].key)
                 ELSE TRUE
           parsed == parseIntJS(reason)
       IN  IF ~ok THEN [status |-> 403, certs |-> certs]
           ELSE [status |-> 200,
                 certs |-> put(certs, cert,
                               [certs[cert] EXCEPT
                                  !.revoked = TRUE,
                                  !.revocationReason =
                                     IF parsed[1] THEN 0 ELSE parsed[2]])]

RevokeCert(k, cert, reason) ==
  /\ certs' = revokeCert(k, cert, reason).certs
  /\ UNCHANGED <<nonceVars, transportVars, clientVars, probeVars, regs, regCount, apps, authzs,
                 caKeys, issuing, probes, now, retired>>

\* registerKey(key, server) of the server's test suite: db.put() of a
\* registration object whose id is the thumbprint of its key
RegisterKey(k) ==
  /\ regByThumbprint(thumbprint(k)) = Null
  /\ regs' = put(regs, thumbprint(k), Registration(k, thumbprint(k), "c1"))
  /\ UNCHANGED <<nonceVars, transportVars, clientVars, probeVars, regCount, apps, authzs,
                 certs, caKeys, issuing, probes, now, retired>>

\* payload.reason as a string: "3", "-1" and "x"
Reasons == {<<3>>, <<12, 1>>, <<11>>}

(***************************************************************************)
(* The transport layer: body parser, the gate of all requests, the gate of *)
(* POSTs and the rate limit.  A request is on host "acme" and, for a POST, *)
(* on path "/new-reg".                                                     *)
(***************************************************************************)
\* RateLimit.window, 1000 ms
Window == TicksPerSecond

\* RateLimit.retryAfter() at instant t, in seconds
retryAfter(t) ==
  IF nextOpen < t THEN 0
  ELSE (nextOpen - t + TicksPerSecond - 1) \div TicksPerSecond

\* the while loop of RateLimit.update()
RECURSIVE dropOld(_, _)
dropOld(q, t) ==
  IF Len(q) > 0 /\ t - Head(q) > Window THEN dropOld(Tail(q), t) ELSE q

\* RateLimit.update() at instant t: the queue and nextOpen it leaves
rateLimitUpdate(t) ==
  LET q == dropOld(Append(queue, t), t)
  IN  [queue |-> q,
       nextOpen |-> IF Len(q) >= RateLimitSize THEN Head(q) + Window ELSE nextOpen]

\* the absolute URL of the request, and the values of the url header
RequestURL == [protocol |-> "https:", host |-> "acme", path |-> "/new-reg"]
Urls ==
  {RequestURL,
   [protocol |-> "https:", host |-> "acme", path |-> "/new-app"],
   [protocol |-> "https:", host |-> "example.com", path |-> "/new-reg"],
   [protocol |-> "http:", host |-> "acme", path |-> "/new-reg"]}

\* _checkURL(req, url)
checkURLMutant(url) == TRUE

checkURL(url) ==
  /\ url.protocol = "https:"
  /\ url.host = RequestURL.host
  /\ url.path = RequestURL.path

\* the nonce headers of the POSTs: nonces the source hands out, and a string
\* that is no number
PostNonces == {toString(v) : v \in (Start + 1)..(Start + 2)} \cup {<<11>>}

\* the POSTs: the protocol, whether the body is JSON, whether jose.verify()
\* accepts the JWS, its nonce and url headers and its key
GoodPost ==
  [protocol |-> "https", json |-> TRUE, verified |-> TRUE,
   nonce |-> toString(Start + 1), url |-> RequestURL, key |-> 1]
Posts ==
  {[GoodPost EXCEPT !.nonce = n] : n \in PostNonces}
    \cup {[GoodPost EXCEPT !.url = u] : u \in Urls}
    \cup {[GoodPost EXCEPT !.verified = FALSE],
          [GoodPost EXCEPT !.json = FALSE],
          [GoodPost EXCEPT !.protocol = "http"]}

\* a response: the status, the type of the problem document if it has one,
\* the Replay-Nonce and Retry-After headers (<<>> and 0 when absent), and
\* the steps the POST gate has taken for the request
Response(status, type, replayNonce, wait, steps) ==
  [status |-> status, type |-> type, replayNonce |-> replayNonce,
   retryAfter |-> wait, steps |-> steps]

\* app.all('/*') on a GET of the directory
Get(protocol) ==
  /\ IF protocol # "https"
     THEN /\ sent' = Response(500, "malformed", <<>>, 0, <<>>)
          /\ UNCHANGED nonceVars
     ELSE /\ counter < Start + MaxRequests
          /\ counter' = counter + 1
          /\ lastUse' = NoUse
          /\ sent' = Response(200, "", toString(counter + 1), 0, <<>>)
          /\ UNCHANGED <<min, used, accepted>>
  /\ UNCHANGED <<serverVars, clientVars, probeVars, queue, nextOpen, posts, handling>>

\* bodyParser.json(), app.all('/*') and app.post('/*') up to jose.verify()
Post(req) ==
  /\ IF ~req.json
     THEN \* the body parser fails the request before any gate
          /\ sent' = Response(400, "", <<>>, 0, <<>>)
          /\ UNCHANGED <<nonceVars, clientVars, probeVars, queue, nextOpen, posts>>
     ELSE IF req.protocol # "https"
     THEN /\ sent' = Response(500, "malformed", <<>>, 0, <<>>)
          /\ UNCHANGED <<nonceVars, clientVars, probeVars, queue, nextOpen, posts>>
     ELSE /\ counter < Start + MaxRequests
          /\ counter' = counter + 1
          /\ lastUse' = NoUse
          /\ UNCHANGED <<min, used, accepted>>
          /\ IF retryAfter(now) > 0
             THEN /\ sent' = Response(403, "rateLimited", toString(counter + 1),
                                      retryAfter(now), <<>>)
                  /\ UNCHANGED <<queue, nextOpen, posts>>
             ELSE /\ Cardinality(posts) < MaxPosts
                  /\ queue' = rateLimitUpdate(now).queue
                  /\ nextOpen' = rateLimitUpdate(now).nextOpen
                  /\ posts' = posts \cup
                       {[verified |-> req.verified, nonce |-> req.nonce,
                         url |-> req.url, key |-> req.key,
                         replayNonce |-> toString(counter + 1),
                         stage |-> "verify", steps |-> <<>>]}
                  /\ UNCHANGED sent
  /\ UNCHANGED <<serverVars, clientVars, probeVars, handling>>

\* the step at which the then-callback of jose.verify() throws, "" if none
gateErrorMutant(p) ==
  IF ~p.verified THEN "jws"
  ELSE IF ~checkURL(p.url) THEN "url"
  ELSE ""

gateError(p) ==
  IF ~p.verified THEN "jws"
  ELSE IF ~isDigits(p.nonce) \/ useRejects(parseInt(p.nonce)) THEN "nonce"
  ELSE IF ~checkURL(p.url) THEN "url"
  ELSE ""

\* jose.verify() settles for the POST p: the nonce is used, the url is
\* compared; the catch answers 400, else the thumbprint is computed
Verified(p) ==
  /\ p \in posts
  /\ p.stage = "verify"
  /\ IF p.verified THEN use(p.nonce) ELSE UNCHANGED nonceVars
  /\ LET error == gateError(p)
         steps == IF error = "jws" THEN <<>>
                  ELSE IF error = "nonce" THEN <<"verify">>
                  ELSE IF error = "url" THEN <<"verify", "nonce">>
                  ELSE <<"verify", "nonce", "url">>
     IN  IF error # ""
         THEN /\ posts' = posts \ {p}
              /\ sent' = Response(400, "malformed", p.replayNonce, 0, steps)
         ELSE /\ posts' = (posts \ {p}) \cup
                    {[p EXCEPT !.stage = "thumbprint", !.steps = steps]}
              /\ UNCHANGED sent
  /\ UNCHANGED <<serverVars, clientVars, probeVars, queue, nextOpen, handling>>

\* key.thumbprint() settles for the POST p: next() runs the handler of the
\* route, newReg()
Dispatch(p) ==
  LET r == newReg(p.key, "c1") IN
  /\ p \in posts
  /\ p.stage = "thumbprint"
  /\ r.status = 201 => regCount < MaxRegs
  /\ regs' = r.regs
  /\ regCount' = IF r.status = 201 THEN regCount + 1 ELSE regCount
  /\ posts' = posts \ {p}
  /\ sent' = Response(r.status, "", p.replayNonce, 0, Append(p.steps, "dispatch"))
  /\ UNCHANGED <<nonceVars, clientVars, probeVars, queue, nextOpen, handling, apps, authzs, certs,
                 caKeys, issuing, probes, now, retired>>

\* the clock advances under the transport
Clock ==
  /\ now < MaxClock
  /\ now' = now + 1
  /\ UNCHANGED <<nonceVars, transportVars, clientVars, probeVars, regs, regCount, apps, authzs,
                 certs, caKeys, issuing, probes, retired>>

\* new TransportServer(options): no POST admitted, none in flight, no
\* response sent; nextOpen is the instant of construction
NoResponse ==
  [status |-> 0, type |-> "", replayNonce |-> <<>>, retryAfter |-> 0,
   steps |-> <<>>]

TransportInit ==
  /\ queue = <<>>
  /\ nextOpen = 0
  /\ posts = {}
  /\ handling = {}
  /\ sent = NoResponse

(***************************************************************************)
(* The handlers with their responses.  A POST that a handler has taken is  *)
(* held in handling until the handler ends the response.  The stage of a   *)
(* request is "probe" while the challenge's update() is outstanding,       *)
(* "issue" while CA.issue() is, "rejected" once its promise chain has been *)
(* rejected (no chain of the handlers has a catch), and "unended" when the *)
(* chain has finished without res.end().                                   *)
(***************************************************************************)
Handling(route, k, id, stage, awaits) ==
  [route |-> route, key |-> k, id |-> id, stage |-> stage, awaits |-> awaits]

\* the applications for which the outcome r of a handler has called
\* CA.issue() without the CA's keys at hand
started(r) == {a \in 1..MaxApps : r.issuing[a] > issuing[a]}

\* the certificates of the outcome r and those that the probes ps may lead
\* to are within the bound
reserve(r, ps) == certLoad(r) + MaxApps * Cardinality(ps) <= MaxCerts

\* the type of the problem document sent with a status
problemOf(status) ==
  IF status = 400 THEN "malformed"
  ELSE IF status = 401 THEN "unauthorized"
  ELSE ""

\* the chain of the request h after the outcome r: it waits for the probe,
\* or for the CA, or the response is sent
Proceed(h, r) ==
  IF r.status = 0
  THEN /\ handling' = (handling \ {h}) \cup {[h EXCEPT !.stage = "probe"]}
       /\ UNCHANGED sent
  ELSE IF started(r) # {}
  THEN /\ handling' = (handling \ {h}) \cup
            {[h EXCEPT !.stage = "issue", !.awaits = started(r)]}
       /\ UNCHANGED sent
  ELSE /\ handling' = handling \ {h}
       /\ sent' = Response(r.status, problemOf(r.status), <<>>, 0, <<>>)

\* POST /new-app: newApp() up to app.issueIfReady(), whose then() responds
HandleNewApp(k, payload) ==
  LET r == newApp(k, payload) IN
  /\ Cardinality(handling) < MaxPosts
  /\ Cardinality(DOMAIN r.apps) <= MaxApps
  /\ reserve(r, probes)
  /\ authzs' = r.authzs
  /\ apps' = r.apps
  /\ certs' = r.certs
  /\ issuing' = r.issuing
  /\ Proceed(Handling("/new-app", k, r.id, "", {}), r)
  /\ UNCHANGED <<nonceVars, clientVars, probeVars, queue, nextOpen, posts, regs, regCount, caKeys,
                 probes, now, retired>>

\* POST /authz/:id and POST /authz/:id/:index: updateAuthz() up to the
\* challenge's update()
HandleAuthz(k, id, index, payload) ==
  LET r == updateAuthz(k, id, index, payload) IN
  /\ Cardinality(handling) < MaxPosts
  /\ IF r.status = 0
     THEN /\ Cardinality(probes) < MaxProbes
          /\ probes' = probes \cup
               {[authz |-> id, index |-> index,
                 n |-> 1 + Cardinality({p \in probes :
                                          p.authz = id /\ p.index = index})]}
     ELSE UNCHANGED probes
  /\ reserve(r, probes')
  /\ authzs' = r.authzs
  /\ apps' = r.apps
  /\ certs' = r.certs
  /\ issuing' = r.issuing
  /\ Proceed(Handling("/authz", k, id, "", {}), r)
  /\ UNCHANGED <<nonceVars, clientVars, probeVars, queue, nextOpen, posts, regs, regCount, caKeys,
                 now, retired>>

\* the probe p answers or times out: the rest of the chain of updateAuthz()
ProbeDone(p, h, status) ==
  LET r == challengeSettled(p.authz, p.index, status) IN
  /\ p \in probes
  /\ h \in handling
  /\ h.stage = "probe"
  /\ h.id = p.authz
  /\ probes' = probes \ {p}
  /\ authzs' = r.authzs
  /\ apps' = r.apps
  /\ certs' = r.certs
  /\ issuing' = r.issuing
  /\ Proceed(h, r)
  /\ UNCHANGED <<nonceVars, clientVars, probeVars, queue, nextOpen, posts, regs, regCount, caKeys,
                 now, retired>>

\* CA.generate() calls back for the CA.issue() of application a that the
\* request h awaits: with the keys (ok), and issueIfReady() stores the
\* certificate, or with an error, and the chain of h is rejected
Generated(h, a, ok) ==
  LET certId == Cardinality(DOMAIN certs) + 1
      g == [h EXCEPT !.awaits = @ \ {a},
                     !.stage = IF ok THEN @ ELSE "rejected"]
  IN  /\ h \in handling
      /\ a \in h.awaits
      /\ issuing[a] > 0
      /\ issuing' = [issuing EXCEPT ![a] = @ - 1]
      /\ IF ok
         THEN /\ caKeys' = TRUE
              /\ certs' = put(certs, certId, Certificate(apps[a]))
              /\ apps' = put(apps, a, [apps[a] EXCEPT !.certificate = certId])
         ELSE UNCHANGED <<caKeys, certs, apps>>
      /\ IF g.stage = "issue" /\ g.awaits = {}
         THEN /\ handling' = handling \ {h}
              /\ sent' = Response(IF h.route = "/new-app" THEN 201 ELSE 200,
                                  "", <<>>, 0, <<>>)
         ELSE /\ handling' = (handling \ {h}) \cup {g}
              /\ UNCHANGED sent
      /\ UNCHANGED <<nonceVars, clientVars, probeVars, queue, nextOpen, posts, regs, regCount, authzs,
                     probes, now, retired>>

\* changeKey() with its response
HandleChangeKey(k, inner) ==
  LET r == changeKey(k, inner)
      reg == regByThumbprint(thumbprint(inner.key))
  IN  /\ regs' = r.regs
      /\ retired' = IF r.status = 200 /\ regs[reg].key # k
                    THEN (retired \ {<<reg, k>>}) \cup {<<reg, regs[reg].key>>}
                    ELSE retired
      /\ IF r.sent
         THEN /\ sent' = Response(r.status, "unauthorized", <<>>, 0, <<>>)
              /\ UNCHANGED handling
         ELSE /\ Cardinality(handling) < MaxPosts
              /\ handling' = handling \cup
                   {Handling("/key-change", k, reg,
                             IF r.status = 200 THEN "unended" ELSE "rejected",
                             {})}
              /\ UNCHANGED sent
      /\ UNCHANGED <<nonceVars, clientVars, probeVars, queue, nextOpen, posts, regCount, apps, authzs,
                     certs, caKeys, issuing, probes, now>>

(***************************************************************************)
(* The transport client (TransportClient) against the transport server.    *)
(* A post() call occupies a slot; its stage is "head" while the HEAD of    *)
(* _nonce() is to be sent, "post" when it holds a nonce and the POST is to *)
(* be signed and sent, "verify" while the server's jose.verify() runs on   *)
(* it, "sleep" during the delay before a retry, "done" when it has         *)
(* resolved and "failed" when it has rejected.  The record of a call keeps *)
(* the status codes it was answered (answers), the number of POSTs it has  *)
(* sent, and of its current attempt whether the queue was empty when       *)
(* _nonce() ran, the head of the queue then, and whether a HEAD was sent.  *)
(* clean says that no other POST was admitted since the call was first     *)
(* refused by the rate limit.                                              *)
(***************************************************************************)
Calls == 1..MaxCalls

NoCall ==
  [stage |-> "idle", nonce |-> <<>>, posts |-> 0, preflight |-> FALSE,
   emptyAtStart |-> FALSE, headAtStart |-> <<>>, answers |-> <<>>,
   readyAt |-> 0, clean |-> FALSE, replayNonce |-> <<>>]

\* new TransportClient(options)
ClientInit ==
  /\ nonces = <<>>
  /\ calls = [c \in Calls |-> NoCall]
  /\ signed = <<>>

\* DEFAULT_POLL_DELAY, 500 ms, in clock ticks
DefaultPollDelay == 2

\* this.nonces.shift(): the value, <<>> for undefined, and the queue left
shiftMutant(q) ==
  [value |-> IF Len(q) = 0 THEN <<>> ELSE Head(q), rest |-> q]

shift(q) ==
  [value |-> IF Len(q) = 0 THEN <<>> ELSE Head(q),
   rest |-> IF Len(q) = 0 THEN q ELSE Tail(q)]

\* if (nonce) in _nonce(): a string is true unless it is empty
availableMutant(nonce) == FALSE

available(nonce) == nonce # <<>>

\* retryAfterDelay(retryAfter), in clock ticks.  The header is a string;
\* one that parseInt() does not read is taken for a date that does not
\* parse, as this server sends numbers only
retryAfterDelayMutant(header) ==
  LET seconds == parseIntJS(header)
  IN  IF ~seconds[1] THEN seconds[2] ELSE 0

retryAfterDelay(header) ==
  LET seconds == parseIntJS(header)
  IN  IF ~seconds[1] THEN TicksPerSecond * seconds[2] ELSE 0

\* post(url, body) up to the end of _nonce()'s synchronous part: a new call
\* in slot c, or the retry of the call of slot c when its delay is over
ClientPost(c) ==
  LET call == calls[c]
      retry == call.stage = "sleep"
      s == shift(nonces)
  IN  /\ \/ call.stage \in {"idle", "done", "failed"}
         \/ retry /\ now >= call.readyAt
      /\ nonces' = s.rest
      /\ calls' = [calls EXCEPT ![c] =
           [(IF retry THEN call ELSE NoCall) EXCEPT
              !.stage = IF available(s.value) THEN "post" ELSE "head",
              !.nonce = s.value,
              !.preflight = FALSE,
              !.emptyAtStart = (Len(nonces) = 0),
              !.headAtStart = IF Len(nonces) = 0 THEN <<>> ELSE Head(nonces)]]
      /\ UNCHANGED <<nonceVars, serverVars, transportVars, signed, polling, acme,
                     probeVars>>

\* the HEAD of _nonce() and its response, on which app.all('/*') has set
\* Replay-Nonce
ClientHead(c) ==
  /\ calls[c].stage = "head"
  /\ counter < Start + MaxExchanges
  /\ counter' = counter + 1
  /\ lastUse' = NoUse
  /\ calls' = [calls EXCEPT ![c].stage = "post",
                            ![c].nonce = toString(counter + 1),
                            ![c].preflight = TRUE]
  /\ UNCHANGED <<min, used, accepted, serverVars, transportVars, nonces, signed,
                 polling, acme, probeVars>>

\* jose.sign() and rp.post() of the call, and the gates of the server up
\* to jose.verify(): a POST refused by the rate limit comes back as 403
\* with Retry-After and the catch of post() starts the delay
ClientSend(c) ==
  LET call == calls[c]
      r == retryAfter(now)
      delay == retryAfterDelay(toString(r))
  IN  /\ call.stage = "post"
      /\ counter < Start + MaxExchanges
      /\ counter' = counter + 1
      /\ lastUse' = NoUse
      /\ signed' = Append(signed, call.nonce)
      /\ IF r > 0
         THEN /\ calls' = [calls EXCEPT ![c] =
                   [call EXCEPT
                      !.stage = "sleep",
                      !.posts = @ + 1,
                      !.answers = Append(@, 403),
                      !.readyAt = now + (IF delay = 0 THEN DefaultPollDelay
                                         ELSE delay),
                      !.clean = IF Len(call.answers) = 0 THEN TRUE ELSE @]]
              /\ UNCHANGED <<queue, nextOpen>>
         ELSE /\ queue' = rateLimitUpdate(now).queue
              /\ nextOpen' = rateLimitUpdate(now).nextOpen
              /\ calls' = [d \in Calls |->
                   IF d = c
                   THEN [call EXCEPT !.stage = "verify",
                                     !.posts = @ + 1,
                                     !.replayNonce = toString(counter + 1)]
                   ELSE [calls[d] EXCEPT !.clean = FALSE]]
      /\ UNCHANGED <<min, used, accepted, serverVars, posts, handling, sent,
                     nonces, polling, acme, probeVars>>

\* jose.verify() settles on the server for the POST of the call: the nonce
\* is used; the route answers 200 and post() queues the Replay-Nonce, or
\* the gate answers 400 and post() rejects
ClientReceive(c) ==
  LET call == calls[c]
      refused == ~isDigits(call.nonce) \/ useRejects(parseInt(call.nonce))
  IN  /\ call.stage = "verify"
      /\ use(call.nonce)
      /\ IF refused
         THEN /\ calls' = [calls EXCEPT ![c].stage = "failed",
                                        ![c].answers = Append(@, 400)]
              /\ UNCHANGED nonces
         ELSE /\ calls' = [calls EXCEPT ![c].stage = "done",
                                        ![c].answers = Append(@, 200)]
              /\ nonces' = Append(nonces, call.replayNonce)
      /\ UNCHANGED <<serverVars, transportVars, signed, polling, acme, probeVars>>

\* transport.rateLimit.update() called by the application that holds the
\* transport
RateLimitUpdate ==
  LET u == rateLimitUpdate(now) IN
  /\ Len(u.queue) <= RateLimitSize
  /\ queue' = u.queue
  /\ nextOpen' = u.nextOpen
  /\ calls' = [d \in Calls |-> [calls[d] EXCEPT !.clean = FALSE]]
  /\ UNCHANGED <<nonceVars, serverVars, posts, handling, sent, nonces, signed,
                 polling, acme, probeVars>>

\* the clock advances under the client
ClientClock ==
  /\ now < MaxClientClock
  /\ now' = now + 1
  /\ UNCHANGED <<nonceVars, transportVars, clientVars, probeVars, regs, regCount, apps,
                 authzs, certs, caKeys, issuing, probes, retired>>

\* ---------------------------------------------------------------------
\* TransportClient.poll: re-fetch until the test holds or the limit is
\* exceeded.

\* DEFAULT_POLL_LIMIT
DefaultPollLimit == 4

\* the limit arguments given to poll(): none (undefined), or a number
PollLimits ==
  {[given |-> FALSE, value |-> 0]}
    \cup {[given |-> TRUE, value |-> v] : v \in (0 - 1)..MaxPollLimit}

\* no poll() has been called
NoPoll ==
  [stage |-> "idle", given |-> [given |-> FALSE, value |-> 0], limit |-> 0,
   gets |-> 0, passed |-> FALSE]

PollInit == polling = NoPoll

pollEntryMutant(limit) ==
  [throws |-> limit.given /\ limit.value < 0,
   limit  |-> IF ~limit.given \/ limit.value = 0 THEN DefaultPollLimit
              ELSE limit.value]

\* The head of poll(url, test, limit, delay) for an https url:
\* `if (limit <= 0) throw`, then `limit = limit || DEFAULT_POLL_LIMIT`.
pollEntry(limit) ==
  [throws |-> limit.given /\ limit.value <= 0,
   limit  |-> IF ~limit.given \/ limit.value = 0 THEN DefaultPollLimit
              ELSE limit.value]

\* A caller calls poll(url, test, limit, delay); a limit <= 0 throws
\* synchronously, otherwise the first GET goes out.
Poll(limit) ==
  /\ polling.stage \in {"idle", "resolved", "rejected", "thrown"}
  /\ LET e == pollEntry(limit) IN
       polling' = [NoPoll EXCEPT !.given = limit,
                                 !.limit = e.limit,
                                 !.stage = IF e.throws THEN "thrown" ELSE "get"]
  /\ UNCHANGED <<nonceVars, serverVars, transportVars, postVars, acme, probeVars>>

\* The GET of the current round is answered: the test passes (poll
\* resolves), the test fails (poll waits `delay`), or the GET fails
\* (poll rejects).
PollAnswer(kind) ==
  /\ polling.stage = "get"
  /\ polling.gets < MaxPollGets
  /\ polling' = [polling EXCEPT
        !.gets = @ + 1,
        !.passed = (kind = "pass"),
        !.stage = CASE kind = "pass" -> "resolved"
                    [] kind = "fail" -> "delay"
                    [] OTHER -> "rejected"]
  /\ UNCHANGED <<nonceVars, serverVars, transportVars, postVars, acme, probeVars>>

\* After the delay: this.poll(url, test, limit - 1, delay), inside the
\* promise chain, so that its throw rejects the promise.
PollAgain ==
  /\ polling.stage = "delay"
  /\ LET e == pollEntry([given |-> TRUE, value |-> polling.limit - 1]) IN
       polling' = [polling EXCEPT
          !.limit = e.limit,
          !.stage = IF e.throws THEN "rejected" ELSE "get"]
  /\ UNCHANGED <<nonceVars, serverVars, transportVars, postVars, acme, probeVars>>

\* ---------------------------------------------------------------------
\* ACMEClient: the account key of the client across changeKey().

\* the newKey arguments of changeKey(): none, or a key
NewKeys == {Null} \cup 1..(NumKeys + 1)

\* new ACMEClient({accountKey: key 1, ...}): the transport client holds
\* the account key, the ACME client has no accountKey property of its own
NoAcme ==
  [registered |-> FALSE, clientKey |-> 1, accountKey |-> Null,
   stage |-> "idle", oldKey |-> Null, before |-> 1, failed |-> FALSE,
   signer |-> Null]

AcmeInit == acme = NoAcme

\* register() succeeded: registrationURL is set
AcmeRegister ==
  /\ acme.stage = "idle"
  /\ ~acme.registered
  /\ acme' = [acme EXCEPT !.registered = TRUE, !.signer = acme.clientKey]
  /\ UNCHANGED <<nonceVars, serverVars, transportVars, postVars, polling, probeVars>>

\* changeKey(newKey) up to the first asynchronous step: the two early
\* rejections, then the swap of this.client.accountKey.
AcmeChangeKey(newKey) ==
  /\ acme.stage = "idle"
  /\ IF ~acme.registered \/ newKey = Null
     THEN acme' = [acme EXCEPT !.before = acme.clientKey, !.failed = TRUE]
     ELSE acme' = [acme EXCEPT !.before = acme.clientKey,
                               !.oldKey = acme.clientKey,
                               !.clientKey = newKey,
                               !.failed = FALSE,
                               !.stage = "changing"]
  /\ UNCHANGED <<nonceVars, serverVars, transportVars, postVars, polling, probeVars>>

\* The promise chain of changeKey() ends: every step succeeded ("ok"), or
\* the directory fetch, the key-change endpoint lookup or the POST failed
\* and the catch handler ran `this.accountKey = oldKey`.
AcmeChangeKeyEnd(step) ==
  /\ acme.stage = "changing"
  /\ IF step = "ok"
     THEN acme' = [acme EXCEPT !.stage = "idle", !.signer = acme.clientKey]
     ELSE acme' = [acme EXCEPT !.stage = "idle",
                               !.failed = TRUE,
                               !.accountKey = acme.oldKey,
                               !.signer = IF step = "post" THEN acme.clientKey
                                          ELSE @]
  /\ UNCHANGED <<nonceVars, serverVars, transportVars, postVars, polling, probeVars>>

\* Any later request of the ACME client: this.client.post() signs with
\* this.client.accountKey.
AcmePost ==
  /\ acme.stage = "idle"
  /\ acme.registered
  /\ acme' = [acme EXCEPT !.signer = acme.clientKey]
  /\ UNCHANGED <<nonceVars, serverVars, transportVars, postVars, polling, probeVars>>

\* ---------------------------------------------------------------------
\* Server-side Challenge objects and their update().

ChallengeClasses == {"http-01", "dns-01", "tls-sni-02"}

\* how a validation probe can end, per challenge class
ProbeOutcomes(type) ==
  CASE type = "http-01"    -> {"good", "wrong", "error"}
    [] type = "dns-01"     -> {"good", "wrong", "timeout"}
    [] type = "tls-sni-02" -> {"good", "wrong", "error"}

\* new Challenge(name, thumbprint)
NewChallenge == [status |-> "pending", update |-> "none", probe |-> "none"]

ChallengeInit == challengeObj = [t \in ChallengeClasses |-> NewChallenge]

\* What the end of the probe does to the promise update() returned:
\* whether it settles, and the status it leaves.
\*   http-01: rp.get().then(...).catch(...) settles on every outcome;
\*   dns-01: 'message' resolves, 'timeout' rejects into the catch;
\*   tls-sni-02: the connect callback resolves or rejects into the
\*     catch; a failed connection raises 'error' on the stream, which
\*     has no listener, and neither resolve nor reject is called.
probeSettles(type, outcome, status) ==
  CASE outcome = "good" -> [settles |-> TRUE, status |-> "valid"]
    [] outcome = "wrong" -> [settles |-> TRUE, status |-> "invalid"]
    [] outcome = "timeout" -> [settles |-> TRUE, status |-> "invalid"]
    [] outcome = "error" /\ type = "http-01" ->
         [settles |-> TRUE, status |-> "invalid"]
    [] OTHER -> [settles |-> FALSE, status |-> status]

\* challenge.update(response): a response of the wrong type or with the
\* wrong key authorization makes the challenge invalid at once;
\* otherwise the probe goes out.
ChallengeUpdate(type, matches) ==
  /\ challengeObj[type].update # "pending"
  /\ challengeObj' = [challengeObj EXCEPT ![type] =
        IF matches
        THEN [@ EXCEPT !.update = "pending", !.probe = "flight"]
        ELSE [@ EXCEPT !.status = "invalid", !.update = "resolved",
                       !.probe = "none"]]
  /\ UNCHANGED <<nonceVars, serverVars, transportVars, clientVars, moduleVars>>

\* The probe of a pending update() ends.
ProbeEnd(type, outcome) ==
  /\ challengeObj[type].probe = "flight"
  /\ LET s == probeSettles(type, outcome, challengeObj[type].status) IN
       challengeObj' = [challengeObj EXCEPT ![type] =
          [status |-> s.status,
           update |-> IF s.settles THEN "resolved" ELSE "pending",
           probe  |-> "over"]]
  /\ UNCHANGED <<nonceVars, serverVars, transportVars, clientVars, moduleVars>>

\* ---------------------------------------------------------------------
\* pki.CA: the key pair of the CA, generated on the first keys() call.

\* the callers of CA.keys(): the CA.issue() calls of the server
CACallers == 1..MaxKeyCalls

\* a caller that has not called keys()
NoKeysCall == [stage |-> "idle", key |-> Null]

\* new CA(): this._keys is unset and no key pair has been generated
CAInit ==
  ca = [keys |-> Null, made |-> 0, calls |-> [c \in CACallers |-> NoKeysCall]]

\* CA.keys() called by caller c: the cached pair when this._keys is set,
\* otherwise this.generate(), whose callback is still to come.
CAKeys(c) ==
  /\ ca.calls[c].stage # "waiting"
  /\ ca' = [ca EXCEPT !.calls[c] =
        IF ca.keys # Null
        THEN [stage |-> "got", key |-> ca.keys]
        ELSE [stage |-> "waiting", key |-> Null]]
  /\ UNCHANGED <<nonceVars, serverVars, transportVars, clientVars,
                 challengeObj, listeners>>

\* The callback of forge.pki.rsa.generateKeyPair for the generate() of
\* caller c: with an error the promise is rejected, otherwise the new key
\* pair (key pairs are numbered as they are made) is assigned to
\* this._keys and handed to the caller.
CAGenerated(c, ok) ==
  /\ ca.calls[c].stage = "waiting"
  /\ ca.made < MaxGenerations
  /\ ca' = IF ok
           THEN [ca EXCEPT !.made = @ + 1,
                           !.keys = ca.made + 1,
                           !.calls[c] = [stage |-> "got", key |-> ca.made + 1]]
           ELSE [ca EXCEPT !.calls[c] = [stage |-> "failed", key |-> Null]]
  /\ UNCHANGED <<nonceVars, serverVars, transportVars, clientVars,
                 challengeObj, listeners>>

\* ---------------------------------------------------------------------
\* The listeners of the validation modules and of the out-of-band
\* challenge: HTTP01Validation.respond, DNS01Validation.respond and the
\* PageViewChallenge constructor.

ListenerModules == {"http-01", "dns-01", "oob-01"}

\* no respond() call and no PageViewChallenge yet
NoListener ==
  [open |-> FALSE, promise |-> "none", answered |-> FALSE, status |-> "pending"]

ListenInit == listeners = [m \in ListenerModules |-> NoListener]

\* respond(name, challenge, response, serverReady), or new
\* PageViewChallenge(): the server listens and the promise is pending.
Respond(m) ==
  /\ ~listeners[m].open
  /\ listeners[m].promise # "pending"
  /\ listeners' = [listeners EXCEPT ![m] =
        [open |-> TRUE, promise |-> "pending", answered |-> FALSE,
         status |-> "pending"]]
  /\ UNCHANGED <<nonceVars, serverVars, transportVars, clientVars,
                 challengeObj, ca>>

\* the promise after resolve(): resolve on a settled promise does nothing
resolved(promise) == IF promise = "pending" THEN "resolved" ELSE promise

\* The validation request reaches the listener.
\*   http-01: the answer is sent, server.close(() => resolve(true));
\*   dns-01: the answer is sent; server.close() follows after
\*     serverCloseWaitMilli;
\*   oob-01: resolve(), status valid, and the finally handler closes the
\*     server before the promise resolves.
Request(m) ==
  /\ listeners[m].open
  /\ CASE m = "http-01" ->
            listeners' = [listeners EXCEPT ![m] =
               [@ EXCEPT !.open = FALSE, !.answered = TRUE,
                         !.promise = resolved(@)]]
       [] m = "dns-01" ->
            /\ ~listeners[m].answered
            /\ listeners' = [listeners EXCEPT ![m] = [@ EXCEPT !.answered = TRUE]]
       [] m = "oob-01" ->
            /\ listeners[m].promise = "pending"
            /\ listeners' = [listeners EXCEPT ![m] =
                  [@ EXCEPT !.open = FALSE, !.answered = TRUE,
                            !.status = "valid", !.promise = "resolved"]]
  /\ UNCHANGED <<nonceVars, serverVars, transportVars, clientVars,
                 challengeObj, ca>>

\* dns-01, serverCloseWaitMilli after the answer: server.close(), and the
\* 'close' listener calls resolve(true).
CloseWait ==
  /\ listeners["dns-01"].open
  /\ listeners["dns-01"].answered
  /\ listeners' = [listeners EXCEPT !["dns-01"] =
        [@ EXCEPT !.open = FALSE, !.promise = resolved(@)]]
  /\ UNCHANGED <<nonceVars, serverVars, transportVars, clientVars,
                 challengeObj, ca>>

\* The .timeout() of the pending promise fires.
\*   http-01, dns-01: the promise respond() returned is rejected; nothing
\*     in respond() handles the rejection;
\*   oob-01: the catch sets status invalid and the finally handler closes
\*     the server before the promise resolves.
Timeout(m) ==
  /\ listeners[m].promise = "pending"
  /\ listeners' = [listeners EXCEPT ![m] =
        IF m = "oob-01"
        THEN [@ EXCEPT !.open = FALSE, !.status = "invalid",
                       !.promise = "resolved"]
        ELSE [@ EXCEPT !.promise = "rejected"]]
  /\ UNCHANGED <<nonceVars, serverVars, transportVars, clientVars,
                 challengeObj, ca>>

\* PageViewChallenge.update(response) with a response of another type:
\* status invalid, this._server.cancel(), whose onCancel hook closes the
\* server; update() returns a resolved promise.
Cancel ==
  /\ listeners["oob-01"].promise = "pending"
  /\ listeners' = [listeners EXCEPT !["oob-01"] =
        [@ EXCEPT !.open = FALSE, !.status = "invalid",
                  !.promise = "cancelled"]]
  /\ UNCHANGED <<nonceVars, serverVars, transportVars, clientVars,
                 challengeObj, ca>>

\* the nonce source, the server, its transport, the clients, the
\* challenge objects, the CA and the validation modules as constructed
Init ==
  SourceInit /\ ServerInit /\ TransportInit /\ ClientInit /\ PollInit
    /\ AcmeInit /\ ChallengeInit /\ CAInit /\ ListenInit

\* The transport under GETs and POSTs while the clock advances.
NextTransport ==
  \/ Clock
  \/ \E protocol \in {"https", "http"} : Get(protocol)
  \/ \E req \in Posts : Post(req)
  \/ \E p \in posts : Verified(p)
  \/ \E p \in posts : Dispatch(p)

SpecTransport ==
  Init /\ [][NextTransport]_vars

\* The handlers with their responses.  The probes and CA.generate() call
\* back sooner or later.
Settle ==
  \/ \E p \in probes, h \in handling, status \in {"valid", "invalid"} :
        ProbeDone(p, h, status)
  \/ \E h \in handling, a \in 1..MaxApps, ok \in BOOLEAN : Generated(h, a, ok)

\* the key-change requests of key 2 for the registration of key 1: a
\* correct one, one whose inner JWS does not verify, one for another url
RespondInner ==
  LET good == [key |-> 1, verified |-> TRUE, url |-> "key-change",
               oldKey |-> thumbprint(1), newKey |-> thumbprint(2),
               account |-> 1]
  IN  {good, [good EXCEPT !.verified = FALSE], [good EXCEPT !.url = "bogus"]}

\* new-app payloads without dates
RespondPayloads == [csr : CSRs \cup {NoCSR}, notBefore : {Null}, notAfter : {Null}]

NextRespond ==
  \/ NewReg(1, "c1")
  \/ \E k \in Keys, payload \in RespondPayloads : HandleNewApp(k, payload)
  \/ \E k \in Keys, id \in AuthzIds, r \in AuthzRequests :
        HandleAuthz(k, id, r.index, r)
  \/ \E p \in probes, h \in handling, status \in {"valid", "invalid"} :
        ProbeDone(p, h, status)
  \/ \E h \in handling, a \in 1..MaxApps, ok \in BOOLEAN : Generated(h, a, ok)
  \/ \E inner \in RespondInner : HandleChangeKey(2, inner)

SpecRespond ==
  Init /\ [][NextRespond]_vars /\ WF_vars(Settle)

\* The client's post() calls against the transport while the clock advances.
NextClient ==
  \/ ClientClock
  \/ RateLimitUpdate
  \/ \E c \in Calls : ClientPost(c)
  \/ \E c \in Calls : ClientHead(c)
  \/ \E c \in Calls : ClientSend(c)
  \/ \E c \in Calls : ClientReceive(c)

SpecClient ==
  Init /\ [][NextClient]_vars

\* The ACME client's poll() and changeKey() calls.
NextAcme ==
  \/ \E limit \in PollLimits : Poll(limit)
  \/ \E kind \in {"pass", "fail", "error"} : PollAnswer(kind)
  \/ PollAgain
  \/ AcmeRegister
  \/ \E newKey \in NewKeys : AcmeChangeKey(newKey)
  \/ \E step \in {"ok", "directory", "endpoint", "post"} : AcmeChangeKeyEnd(step)
  \/ AcmePost

SpecAcme ==
  Init /\ [][NextAcme]_vars

\* The challenge objects under update() calls and probe ends.
NextChallenge ==
  \/ \E type \in ChallengeClasses, matches \in BOOLEAN :
       ChallengeUpdate(type, matches)
  \/ \E type \in ChallengeClasses :
       \E outcome \in ProbeOutcomes(type) : ProbeEnd(type, outcome)

SpecChallenge ==
  Init /\ [][NextChallenge]_vars

\* The CA under keys() calls that overlap.
NextCA ==
  \/ \E c \in CACallers : CAKeys(c)
  \/ \E c \in CACallers, ok \in BOOLEAN : CAGenerated(c, ok)

SpecCA ==
  Init /\ [][NextCA]_vars

\* The listeners of the validation modules.
NextListen ==
  \/ \E m \in ListenerModules : Respond(m)
  \/ \E m \in ListenerModules : Request(m)
  \/ CloseWait
  \/ \E m \in ListenerModules : Timeout(m)
  \/ Cancel

SpecListen ==
  Init /\ [][NextListen]_vars

NextNonce ==
  \/ SourceGet
  \/ \E nonce \in Nonces : SourceUse(nonce)

SpecNonce ==
  Init /\ [][NextNonce]_vars

\* The server between two accounts that apply for certificates and answer
\* their challenges, the CA generating its keys meanwhile.
NextServer ==
  \/ \E k \in Keys : NewReg(k, "c1")
  \/ \E k \in Keys, payload \in AppPayloads : NewApp(k, payload)
  \/ \E k \in Keys, id \in AuthzIds, r \in AuthzRequests :
        r.index # Null /\ UpdateAuthz(k, id, r.index, r)
  \/ \E p \in probes, status \in {"valid", "invalid"} : ChallengeResolve(p, status)
  \/ \E a \in 1..MaxApps : GenerateDone(a)

Spec ==
  Init /\ [][NextServer]_vars

\* The life of the authorizations of one account: challenge updates,
\* deactivation, fetches, reuse by new-app and expiry.
NextAuthz ==
  \/ Tick
  \/ NewReg(1, "c1")
  \/ \E k \in Keys, payload \in AppPayloads : NewApp(k, payload)
  \/ \E k \in Keys, id \in AuthzIds, r \in AuthzRequests :
        UpdateAuthz(k, id, r.index, r)
  \/ \E p \in probes, status \in {"valid", "invalid"} : ChallengeResolve(p, status)
  \/ \E a \in 1..MaxApps : GenerateDone(a)
  \/ \E id \in DOMAIN authzs : FetchAuthz(id)
  \/ \E id \in DOMAIN authzs, index \in 1..NumChallengeTypes : FetchChallenge(id, index)

SpecAuthz ==
  Init /\ [][NextAuthz]_vars

\* The registrations: new-reg, update-reg, deactivation and key-change.
NextReg ==
  \/ \E k \in Keys, contact \in {"c1"} : NewReg(k, contact)
  \/ \E k \in Keys, id \in 1..MaxRegs, payload \in RegPayloads : UpdateReg(k, id, payload)
  \/ \E k \in Keys, inner \in InnerJWS : ChangeKey(k, inner)
  \/ \E k \in Keys, inner \in InnerJWS : KeyChange(k, inner)
  \/ \E k \in Keys, payload \in AppPayloads : NewApp(k, payload)

SpecReg ==
  Init /\ [][NextReg]_vars

\* Issuance for two accounts and the revocation of the certificates.
NextRevoke ==
  \/ \E k \in Keys : NewReg(k, "c1")
  \/ \E k \in Keys, payload \in AppPayloads :
        payload.csr.names = <<"a">> /\ NewApp(k, payload)
  \/ \E k \in Keys, id \in DOMAIN authzs :
        UpdateAuthz(k, id, 1, [index |-> 1, status |-> "", response |-> "good"])
  \/ \E p \in probes, status \in {"valid", "invalid"} : ChallengeResolve(p, status)
  \/ \E a \in 1..MaxApps : GenerateDone(a)
  \/ \E k \in Keys \cup {CertKey}, cert \in 1..MaxCerts, reason \in Reasons :
        RevokeCert(k, cert, reason)

SpecRevoke ==
  Init /\ [][NextRevoke]_vars

\* Issuance and revocation for accounts that are stored directly, as the
\* test suite stores them, next to an account made by new-reg.
NextFixture ==
  \/ NewReg(1, "c1")
  \/ \E k \in Keys : RegisterKey(k)
  \/ \E k \in Keys, payload \in AppPayloads :
        payload.csr.names = <<"a">> /\ NewApp(k, payload)
  \/ \E k \in Keys, id \in DOMAIN authzs :
        UpdateAuthz(k, id, 1, [index |-> 1, status |-> "", response |-> "good"])
  \/ \E p \in probes, status \in {"valid", "invalid"} : ChallengeResolve(p, status)
  \/ \E a \in 1..MaxApps : GenerateDone(a)
  \/ \E k \in Keys \cup {CertKey}, cert \in 1..MaxCerts, reason \in Reasons :
        RevokeCert(k, cert, reason)

SpecFixture ==
  Init /\ [][NextFixture]_vars

(***************************************************************************)
(* C1: a nonce value for which use() has once returned true is never       *)
(* accepted again: no use() call returns true for a value that an earlier  *)
(* use() call already returned true for.                                   *)
(***************************************************************************)
C1_NonceExactlyOnce == ~(lastUse.ok /\ lastUse.again)

(***************************************************************************)
(* C2: an Application's status changes to valid only at a moment when      *)
(* every one of its requirements has status valid.                         *)
(***************************************************************************)
becomesValid(a) ==
  /\ a \in DOMAIN apps'
  /\ apps'[a].status = "valid"
  /\ (a \in DOMAIN apps => apps[a].status # "valid")

C2_IssuanceGate ==
  [][\A a \in 1..MaxApps :
       becomesValid(a) =>
         \A i \in 1..Len(apps'[a].requirements) :
            apps'[a].requirements[i].status = "valid"]_vars

\* an application with two requirements has become valid
C2_Witness ==
  \E a \in DOMAIN apps :
     /\ apps[a].status = "valid"
     /\ Len(apps[a].requirements) = 2
     /\ \A i \in 1..2 : apps[a].requirements[i].status = "valid"

(***************************************************************************)
(* C3: whenever an Application has status valid, a certificate for it has  *)
(* been issued and stored and its certificate URL is set.                  *)
(***************************************************************************)
C3_ValidHasCertificate ==
  \A a \in DOMAIN apps :
     apps[a].status = "valid" =>
       apps[a].certificate # Null /\ apps[a].certificate \in DOMAIN certs

(***************************************************************************)
(* C4: no two distinct Registrations in the store have the same            *)
(* thumbprint.                                                             *)
(***************************************************************************)
C4_ThumbprintUnique ==
  \A r1, r2 \in DOMAIN regs :
     r1 # r2 => regs[r1].thumbprint # regs[r2].thumbprint

\* two Registrations are stored and a key-change has been carried out
C4_Witness == Cardinality(DOMAIN regs) = 2 /\ retired # {}

(***************************************************************************)
(* C5: after a successful key-change for a Registration, a request signed  *)
(* with the old account key fails as unauthorized: update-reg on that      *)
(* Registration and update-authz on its Authorizations answer 401, and     *)
(* new-app creates no Application for it.                                  *)
(***************************************************************************)
C5_OldKeyUnauthorized ==
  \A rk \in retired :
     LET reg == rk[1]
         old == rk[2]
     IN  reg \in DOMAIN regs =>
           /\ \A payload \in RegPayloads : updateReg(old, reg, payload).status = 401
           /\ \A id \in DOMAIN authzs, r \in AuthzRequests :
                 authzs[id].regID = reg =>
                   updateAuthz(old, id, r.index, r).status = 401
           /\ \A payload \in AppPayloads :
                 LET r == newApp(old, payload)
                 IN  r.status = 201 => r.apps[r.id].regID # reg

(***************************************************************************)
(* C6: a revoke-cert request for a known certificate succeeds, marking it  *)
(* revoked, if and only if the submitter is the owning account, or holds a *)
(* valid authorization for every name in the certificate, or signs with    *)
(* the certificate's own key; otherwise it is refused with 403 and the     *)
(* certificate is unchanged.                                               *)
(***************************************************************************)
Permitted(k, cert) ==
  LET reg == regByThumbprint(thumbprint(k))
      names == certs[cert].names
  IN  \/ reg # Null /\ reg = certs[cert].regID
      \/ /\ reg # Null
         /\ \A i \in 1..Len(names) :
               \E a \in DOMAIN authzs :
                  /\ authzs[a].regID = reg
                  /\ authzs[a].name = names[i]
                  /\ authzs[a].status = "valid"
      \/ k = certs[cert].key

C6_RevokeIffPermitted ==
  \A k \in Keys \cup {CertKey}, cert \in DOMAIN certs, reason \in Reasons :
     LET r == revokeCert(k, cert, reason)
     IN  IF Permitted(k, cert)
         THEN r.status = 200 /\ r.certs[cert].revoked
         ELSE r.status = 403 /\ r.certs = certs

(***************************************************************************)
(* C7: the only status transitions an Authorization makes are from pending *)
(* to valid, invalid or deactivated; once it has left pending its status   *)
(* never changes again.                                                    *)
(***************************************************************************)
C7_AuthzTransitions ==
  [][\A id \in DOMAIN authzs :
       authzs'[id].status # authzs[id].status =>
         /\ authzs[id].status = "pending"
         /\ authzs'[id].status \in {"valid", "invalid", "deactivated"}]_vars

(***************************************************************************)
(* C8: once an Authorization's status is valid or invalid, no request      *)
(* makes it pending again.                                                 *)
(***************************************************************************)
C8_NeverPendingAgain ==
  [][\A id \in DOMAIN authzs :
       authzs[id].status \in {"valid", "invalid"} =>
         authzs'[id].status # "pending"]_vars

\* a finalized authorization has outlived its expiry date and has been
\* reused by a second application
C8_Witness ==
  \E id \in DOMAIN authzs :
     /\ authzs[id].status \in {"valid", "invalid"}
     /\ authzs[id].expires < now
     /\ \E a1, a2 \in DOMAIN apps :
           /\ a1 # a2
           /\ \E i \in 1..Len(apps[a1].requirements) : apps[a1].requirements[i].url = id
           /\ \E i \in 1..Len(apps[a2].requirements) : apps[a2].requirements[i].url = id

(***************************************************************************)
(* C9: issueIfReady() on an Application that is already valid is a no-op:  *)
(* no further certificate is issued, nothing new is stored and the         *)
(* Application keeps its certificate URL.                                  *)
(***************************************************************************)
C9_IssueIfReadyIdempotent ==
  \A a \in DOMAIN apps :
     apps[a].status = "valid" /\ apps[a].certificate # Null =>
       issueIfReady([apps |-> apps, certs |-> certs, issuing |-> issuing], {a})
         = [apps |-> apps, certs |-> certs, issuing |-> issuing]

(***************************************************************************)
(* C10: a request answered with an error status (400 and above) leaves    *)
(* the resource store exactly as it was before the request.               *)
(***************************************************************************)
C10_ErrorLeavesStore ==
  /\ \A k \in Keys, id \in 1..MaxRegs, payload \in RegPayloads :
        updateReg(k, id, payload).status >= 400 =>
          updateReg(k, id, payload).regs = regs
  /\ \A k \in Keys, payload \in AppPayloads :
        newApp(k, payload).status >= 400 =>
          newApp(k, payload) = Outcome(newApp(k, payload).status, Null, Stores)

(***************************************************************************)
(* C12: the handler of a POST is run, and the store changed, only after    *)
(* the JWS has been verified, the nonce consumed and the url header        *)
(* matched, in that order; a POST that fails one of these never reaches a  *)
(* handler.                                                                *)
(***************************************************************************)
PassedGate(p) ==
  /\ p.verified
  /\ isDigits(p.nonce) /\ parseInt(p.nonce) \in accepted
  /\ p.url = RequestURL
  /\ p.steps = <<"verify", "nonce", "url">>

C12_GateBeforeHandler ==
  /\ [](\A p \in posts : p.stage = "thumbprint" => PassedGate(p))
  /\ [][(regs' # regs \/ (sent' # sent /\ Len(sent'.steps) = 4)) =>
          \E p \in posts :
             /\ p.stage = "thumbprint"
             /\ PassedGate(p)
             /\ p \notin posts'
             /\ sent'.steps = <<"verify", "nonce", "url", "dispatch">>]_vars

\* a second POST has passed the gate and its handler has answered 409
C12_Witness ==
  /\ sent.status = 409
  /\ sent.steps = <<"verify", "nonce", "url", "dispatch">>
  /\ Cardinality(accepted) = 2

(***************************************************************************)
(* C13: a POST whose JWS fails verification, whose nonce the nonce source  *)
(* does not accept, or whose url header differs from the URL of the        *)
(* request is answered 400 with a malformed problem.                       *)
(***************************************************************************)
C13_GateFailure400 ==
  [][\A p \in posts :
       /\ p.stage = "verify"
       /\ p \notin posts'
       /\ \/ ~p.verified
          \/ ~isDigits(p.nonce)
          \/ useRejects(parseInt(p.nonce))
          \/ p.url # RequestURL
       => /\ sent' = Response(400, "malformed", p.replayNonce, 0, sent'.steps)
          /\ posts' = posts \ {p}]_vars

\* a POST that replays an accepted nonce has been answered 400
C13_Witness ==
  /\ sent.status = 400
  /\ sent.type = "malformed"
  /\ sent.steps = <<"verify">>
  /\ ~lastUse.ok
  /\ isDigits(lastUse.nonce)
  /\ parseInt(lastUse.nonce) \in accepted

(***************************************************************************)
(* C14: every response, for any method and any outcome, carries a          *)
(* Replay-Nonce header with a nonce issued by the nonce source.            *)
(***************************************************************************)
C14_ReplayNonceOnEveryResponse ==
  sent.status # 0 =>
    /\ isDigits(sent.replayNonce)
    /\ parseInt(sent.replayNonce) \in (Start + 1)..counter

(***************************************************************************)
(* C15: when rateLimit POSTs have been admitted within the current window, *)
(* the next POST is answered 403 rateLimited with a Retry-After of the     *)
(* seconds until the oldest of them leaves the window.                     *)
(***************************************************************************)
C15_RateLimited ==
  LET inWindow == {i \in 1..Len(queue) : now - queue[i] < Window}
      oldest == queue[First(inWindow)]
      left == oldest + Window - now
  IN  Cardinality(inWindow) >= RateLimitSize =>
        /\ retryAfter(now) > 0
        /\ retryAfter(now) = (left + TicksPerSecond - 1) \div TicksPerSecond

(***************************************************************************)
(* C16: once more than bufferSize nonces issued after an unused nonce s    *)
(* have been accepted, s has aged out: use(s) returns false from then on.  *)
(* Nonces issued after s are the values above s.                           *)
(***************************************************************************)
C16_AgedOut ==
  lastUse.ok /\ ~lastUse.again =>
    Cardinality({a \in accepted : a > parseInt(lastUse.nonce)}) <= BufferSize

(***************************************************************************)
(* C17: a POST to a challenge of an Authorization whose status is not      *)
(* pending is refused with 403 and changes neither the challenge, the      *)
(* Authorization nor any Application.                                      *)
(***************************************************************************)
C17_FinalizedRefused ==
  \A k \in Keys, id \in DOMAIN authzs, r \in AuthzRequests :
     /\ r.index \in 1..NumChallengeTypes
     /\ authzs[id].status # "pending"
     /\ regByThumbprint(thumbprint(k)) = authzs[id].regID
     => updateAuthz(k, id, r.index, r) = Outcome(403, id, Stores)

C20_DuplicateNewReg ==
  /\ [](\A k \in Keys :
          regByThumbprint(thumbprint(k)) # Null =>
            newReg(k, "c2") = [status |-> 409,
                               location |-> regByThumbprint(thumbprint(k)),
                               regs |-> regs])
  /\ [][\A k \in Keys :
          newReg(k, "c1").status = 201 /\ regs' = newReg(k, "c1").regs =>
            /\ newReg(k, "c1")'.status = 409
            /\ newReg(k, "c1")'.location = newReg(k, "c1").location]_vars

\* a key registered anew after its first Registration was deactivated
C20_Witness ==
  /\ DOMAIN regs = {2}
  /\ \E k \in Keys : newReg(k, "c1").status = 409 /\ newReg(k, "c1").location = 2

(***************************************************************************)
(* C11: every POST that a handler has taken is answered in the end: a      *)
(* request of a key for an object on a route does not stay unanswered      *)
(* for ever, also when the asynchronous work of the handler fails.         *)
(***************************************************************************)
Routes == {"/new-app", "/authz", "/key-change"}
HandledIds == 0..(MaxRegs * Cardinality(Names))
unanswered(route, k, id) ==
  \E h \in handling : h.route = route /\ h.key = k /\ h.id = id

C11_EveryPostAnswered ==
  \A route \in Routes, k \in Keys, id \in HandledIds :
     unanswered(route, k, id) ~> ~unanswered(route, k, id)

(***************************************************************************)
(* C21: after a successful key-change an update-reg POST signed with the   *)
(* new key is accepted for that Registration: it is answered 200 and the   *)
(* Registration returned has the new key.                                  *)
(***************************************************************************)
C21_NewKeyAccepted ==
  \A rk \in retired :
     LET reg == rk[1] IN
     reg \in DOMAIN regs =>
       LET r == updateReg(regs[reg].key, reg,
                          [status |-> "", contact |-> "", agreement |-> ""])
       IN  r.status = 200 /\ r.regs[reg].key = regs[reg].key

(***************************************************************************)
(* C22: a key-change request whose inner JWS is signed by an unregistered  *)
(* key, or whose inner url, oldKey, newKey or account does not match, is   *)
(* answered 403 unauthorized and leaves the keys of the Registrations      *)
(* unchanged.                                                              *)
(***************************************************************************)
mismatch(k, inner) ==
  LET reg == regByThumbprint(thumbprint(inner.key)) IN
  /\ inner.verified
  /\ \/ reg = Null
     \/ inner.url # "key-change"
     \/ inner.oldKey # thumbprint(inner.key)
     \/ inner.newKey # thumbprint(k)
     \/ inner.account # reg

C22_MismatchRefused ==
  \A k \in Keys, inner \in InnerJWS :
     mismatch(k, inner) =>
       keyChange(k, inner) = [status |-> 403, sent |-> TRUE, regs |-> regs]

(***************************************************************************)
(* C23: new-app reuses an Authorization of the same Registration and name  *)
(* only if it is pending or valid; when there is none it creates a fresh   *)
(* pending Authorization for the name.                                     *)
(***************************************************************************)
C23_ReusePendingOrValid ==
  \A k \in Keys, payload \in AppPayloads :
     LET r == newApp(k, payload) IN
     r.status = 201 =>
       \A i \in 1..Len(r.apps[r.id].requirements) :
          LET id == r.apps[r.id].requirements[i].url
              reusable == {a \in DOMAIN authzs :
                             /\ authzs[a].regID = r.apps[r.id].regID
                             /\ authzs[a].name = payload.csr.names[i]
                             /\ authzs[a].status \in {"pending", "valid"}}
          IN  IF reusable # {} THEN id \in reusable
              ELSE id \notin DOMAIN authzs /\ r.authzs[id].status = "pending"

(***************************************************************************)
(* C24: a single post() call sends at most two POST requests: after a      *)
(* rateLimited answer it retries once more and not again.                  *)
(***************************************************************************)
C24_AtMostTwoPosts ==
  \A c \in Calls : calls[c].posts <= 2

(***************************************************************************)
(* C25: a POST refused by the rate limit with Retry-After r and sent again *)
(* after r seconds, no other POST having been admitted meanwhile, is       *)
(* admitted: the answers of the server are 403 and 200 and the call        *)
(* resolves.                                                               *)
(***************************************************************************)
C25_RetryAdmitted ==
  \A c \in Calls :
     LET a == calls[c].answers IN
     Len(a) >= 2 /\ a[1] = 403 /\ calls[c].clean =>
       a = <<403, 200>> /\ calls[c].stage = "done"

C25_Witness ==
  \E c \in Calls :
     /\ calls[c].answers = <<403, 200>>
     /\ calls[c].clean
     /\ calls[c].stage = "done"

(***************************************************************************)
(* C26: the client never signs two POSTs with the same nonce, across       *)
(* retries and overlapping post() calls.                                   *)
(***************************************************************************)
C26_NonceSignedOnce ==
  \A i, j \in 1..Len(signed) : i # j => signed[i] # signed[j]

\* two calls overlapped, one was retried, and a queued nonce was signed
C26_Witness ==
  /\ Len(signed) >= 4
  /\ \E c \in Calls : calls[c].answers = <<403, 200>>
  /\ \E c \in Calls : calls[c].stage = "verify" /\ ~calls[c].preflight

(***************************************************************************)
(* C27: post() sends a HEAD preflight if and only if the nonce queue is    *)
(* empty; otherwise it signs with the nonce at the head of the queue.      *)
(***************************************************************************)
C27_PreflightIffEmpty ==
  \A c \in Calls :
     calls[c].stage \in {"post", "verify"} =>
       /\ calls[c].preflight <=> calls[c].emptyAtStart
       /\ ~calls[c].emptyAtStart => calls[c].nonce = calls[c].headAtStart

C27_Witness ==
  /\ \E c \in Calls : calls[c].stage = "verify" /\ calls[c].preflight
  /\ \E c \in Calls :
        /\ calls[c].stage = "verify"
        /\ ~calls[c].preflight
        /\ calls[c].nonce = calls[c].headAtStart

\* the number of GETs the caller of the current poll() allows: the limit
\* given, DEFAULT_POLL_LIMIT when none was given
allowed ==
  IF polling.given.given
  THEN (IF polling.given.value < 0 THEN 0 ELSE polling.given.value)
  ELSE DefaultPollLimit

\* C28: a poll(url, test, limit, delay) call performs at most `limit`
\* GETs, 4 when no limit is given; it resolves only with a response the
\* test passed; once the allowed GETs are spent on responses that failed
\* the test, the next step of the poll rejects it and no further GET goes
\* out.
C28_PollBounded ==
  /\ [](/\ polling.gets <= allowed
        /\ polling.stage = "resolved" => polling.passed
        /\ polling.stage = "get" => polling.gets < allowed)
  /\ [][(polling.stage = "delay" /\ polling.gets = allowed
           /\ polling' # polling)
          => polling'.stage = "rejected"]_vars

\* a poll() without a limit was rejected after four GETs, none of which
\* passed the test
C28_Witness ==
  /\ polling.stage = "rejected"
  /\ ~polling.given.given
  /\ polling.gets = DefaultPollLimit
  /\ ~polling.passed

\* C29: once the probe of a Challenge update() has ended, whichever way,
\* the promise update() returned is resolved and the Challenge is valid
\* or invalid.
C29_UpdateSettles ==
  \A type \in ChallengeClasses :
    challengeObj[type].probe = "over" =>
      /\ challengeObj[type].update = "resolved"
      /\ challengeObj[type].status \in {"valid", "invalid"}

\* C30: when a changeKey(newKey) call of the ACME client has failed, the
\* key the transport client signs with is the key it had before the call.
C30_OldKeyRestored ==
  (acme.stage = "idle" /\ acme.failed) => acme.clientKey = acme.before

(***************************************************************************)
(* C31: a successful revocation stores max(0, int(payload.reason)) as the  *)
(* certificate's revocationReason: 0 for a reason that is no integer, and  *)
(* never a negative number.                                                *)
(***************************************************************************)
C31_ReasonClamped ==
  \A k \in Keys \cup {CertKey}, cert \in DOMAIN certs, reason \in Reasons :
     LET r == revokeCert(k, cert, reason)
         parsed == parseIntJS(reason)
         int == IF parsed[1] THEN 0 ELSE parsed[2]
     IN  r.status = 200 =>
           r.certs[cert].revocationReason = (IF int < 0 THEN 0 ELSE int)

(***************************************************************************)
(* C32: in every step that changes the status of an Authorization, by a    *)
(* challenge result, by expiry or by deactivation, every authorization     *)
(* requirement with its URL in every Application of the same Registration  *)
(* carries the new status afterwards.                                      *)
(***************************************************************************)
C32_RequirementsFollow ==
  [][\A id \in DOMAIN authzs :
       authzs'[id].status # authzs[id].status =>
         \A a \in DOMAIN apps' :
            apps'[a].regID = authzs'[id].regID =>
              \A i \in 1..Len(apps'[a].requirements) :
                 LET req == apps'[a].requirements[i]
                 IN  (req.type = "authorization" /\ req.url = id)
                       => req.status = authzs'[id].status]_vars

(***************************************************************************)
(* C33: an Application is issued at most one Certificate: once it has a    *)
(* certificate, no step gives it another one, and no second CA.issue() is  *)
(* started for it.                                                         *)
(***************************************************************************)
C33_OneCertificate ==
  /\ [](\A a \in DOMAIN apps :
          issuing[a] + (IF apps[a].certificate # Null THEN 1 ELSE 0) <= 1)
  /\ [][\A a \in DOMAIN apps :
          apps[a].certificate # Null =>
            apps'[a].certificate = apps[a].certificate]_vars

(***************************************************************************)
(* C34: at the moment an Application is issued, every Authorization its    *)
(* requirements reference is valid and not expired.  The moment of         *)
(* issuance is the step in which issueIfReady() finds it ready.            *)
(***************************************************************************)
C34_IssuedOnValidAuthz ==
  [][\A a \in 1..MaxApps :
       becomesValid(a) =>
         \A i \in 1..Len(apps'[a].requirements) :
            LET authz == authzs'[apps'[a].requirements[i].url]
            IN  authz.status = "valid" /\ ~(authz.expires < now')]_vars

(***************************************************************************)
(* C35: a revoke-cert request of an account that neither owns the          *)
(* certificate nor signs with the certificate's key succeeds only if the   *)
(* account holds, for every name in the certificate, an Authorization that *)
(* is valid and not expired.                                               *)
(***************************************************************************)
holdsValid(reg, cert) ==
  /\ reg # Null
  /\ \A i \in 1..Len(certs[cert].names) :
        \E a \in DOMAIN authzs :
           /\ authzs[a].regID = reg
           /\ authzs[a].name = certs[cert].names[i]
           /\ authzs[a].status = "valid"
           /\ ~(authzs[a].expires < now)

C36_ThumbprintOfKey ==
  /\ \A id \in DOMAIN regs : regs[id].thumbprint = thumbprint(regs[id].key)
  /\ \A k \in Keys :
        regByThumbprint(thumbprint(k)) # Null
          <=> \E id \in DOMAIN regs : regs[id].key = k

(***************************************************************************)
(* C37: the CA generates at most one key pair, and every keys() call that  *)
(* has been answered, also one made while the first generation was still   *)
(* running, was answered with the same key pair.                           *)
(***************************************************************************)
C37_OneKeyPair ==
  /\ ca.made <= 1
  /\ \A c, d \in CACallers :
        (ca.calls[c].stage = "got" /\ ca.calls[d].stage = "got")
          => ca.calls[c].key = ca.calls[d].key

(***************************************************************************)
(* C38: when the promise of a validation module has settled, by success,   *)
(* by a probe failure or by timeout, the listener the module started is    *)
(* closed.                                                                 *)
(***************************************************************************)
C38_ListenerClosed ==
  \A m \in ListenerModules :
     listeners[m].promise \in {"resolved", "rejected"} => ~listeners[m].open

(***************************************************************************)
(* C39: a step that changes the status of an Authorization of one          *)
(* Registration leaves every Application of every other Registration as    *)
(* it was and starts no issuance for it.                                   *)
(***************************************************************************)
C39_OtherAppsUntouched ==
  [][\A id \in DOMAIN authzs :
       authzs'[id].status # authzs[id].status =>
         \A a \in DOMAIN apps :
            apps[a].regID # authzs[id].regID =>
              apps'[a] = apps[a] /\ issuing'[a] = issuing[a]]_vars

\* two registrations each have an application whose authorization has
\* become valid: the second status change happened next to a ready
\* application of the other registration
C39_Witness ==
  \E a, b \in DOMAIN apps :
     /\ apps[a].regID # apps[b].regID
     /\ \A i \in 1..Len(apps[a].requirements) :
           authzs[apps[a].requirements[i].url].status = "valid"
     /\ \A i \in 1..Len(apps[b].requirements) :
           authzs[apps[b].requirements[i].url].status = "valid"
     /\ apps[a].status = "valid" /\ apps[b].status = "valid"

(***************************************************************************)
(* C40: every value use() has accepted is at most min or is still in the   *)
(* used buffer, so that the acceptance test refuses it.                    *)
(***************************************************************************)
C40_AcceptedExcluded ==
  \A v \in accepted : v <= min \/ indexOfFound(used, v)

====
